---- MODULE Spec2Model ----
(***************************************************************************)
(* London Property Price Estimator (src/app.py): the linear log-price      *)
(* model predict_price, and the Streamlit page that calls it.              *)
(*                                                                         *)
(* Numbers.  The script computes in IEEE doubles.  Here                    *)
(*   - a value of the log domain (a coefficient, a scaled feature, the     *)
(*     log-price) is a fixed-point integer counting millionths, extended   *)
(*     with -inf and nan:  [k : {"fin","ninf","nan"}, v : Int];            *)
(*   - a value of the price domain (a result of np.exp) is a decimal       *)
(*     float with seven significant digits, extended with 0 and nan:       *)
(*     [k : {"pos","zero","nan"}, m : ONE..10*ONE-1, e : Int], standing    *)
(*     for (m / ONE) * 10^e.                                               *)
(* np.log1p, np.log and np.exp are computed by series, never looked up.    *)
(***************************************************************************)
EXTENDS Integers, Sequences, FiniteSets, TLC

\* One, in millionths: the unit of the log domain and of a mantissa.
ONE == 10 ^ 6

\* One inside np.exp, np.log and np.log1p, which work to two more digits
\* than they return.
WIDE == 10 ^ 8

Abs(a) == IF a < 0 THEN -a ELSE a

\* a * b / h^2, rounded to nearest, for two fixed-point numbers of unit h^2.
\* The product is formed from the halves of the operands so that no
\* intermediate value leaves the 32-bit range.
MulScaled(a, b, h) ==
    LET x   == Abs(a)
        y   == Abs(b)
        xh  == x \div h
        xl  == x % h
        yh  == y \div h
        yl  == y % h
        mid == xh * yl + xl * yh
        low == (mid % h) * h + xl * yl
        p   == xh * yh + mid \div h + (low + (h * h) \div 2) \div (h * h)
    IN  IF (a < 0) = (b < 0) THEN p ELSE -p

\* n further decimal digits of r / b, for 0 <= r < b, the last one rounded.
\* A digit is taken as a step by 5 and a step by 2, so that r * 5 is the
\* largest intermediate value.
RECURSIVE FracDigits(_, _, _)
FracDigits(r, b, n) ==
    IF n = 0 THEN (IF 2 * r >= b THEN 1 ELSE 0)
    ELSE LET r5 == (r * 5) % b
             d  == ((r * 5) \div b) * 2 + (r5 * 2) \div b
         IN  d * 10 ^ (n - 1) + FracDigits((r5 * 2) % b, b, n - 1)

\* a / b to n decimal digits (a * 10^n / b rounded to nearest), for b > 0.
DivScaled(a, b, n) ==
    LET x == Abs(a)
        q == (x \div b) * 10 ^ n + FracDigits(x % b, b, n)
    IN  IF a < 0 THEN -q ELSE q

\* The arithmetic of the script on log-domain values.
MulFix(a, b) == MulScaled(a, b, 1000)
DivFix(a, b) == DivScaled(a, b, 6)

\* a / d rounded to nearest, for a >= 0 and d > 0.
RoundDiv(a, d) == (a + d \div 2) \div d

\* sum over i >= n of z^(2i+1) / (2i+1), given p = z^(2n+1) and z2 = z^2.
RECURSIVE AtanhSum(_, _, _)
AtanhSum(p, z2, n) ==
    IF p = 0 THEN 0
    ELSE RoundDiv(p, 2 * n + 1) + AtanhSum(MulScaled(p, z2, 10000), z2, n + 1)

\* ln(m / WIDE) for WIDE <= m <= 2 * WIDE:  2 * atanh((m - 1) / (m + 1)).
LnMant(m) ==
    LET z == DivScaled(m - WIDE, m + WIDE, 8)
    IN  2 * AtanhSum(z, MulScaled(z, z, 10000), 0)

LN2 == LnMant(2 * WIDE)
LN10 == 3 * LN2 + LnMant((5 * WIDE) \div 4)

\* The greatest j with n / 2^j >= lo, for n >= lo.
RECURSIVE Halvings(_, _)
Halvings(n, lo) == IF n \div 2 >= lo THEN 1 + Halvings(n \div 2, lo) ELSE 0

\* ln(n) in millionths, for an integer n >= 1.
LnInt(n) ==
    LET j == Halvings(n, 1)
    IN  RoundDiv(j * LN2 + LnMant(DivScaled(n, 2 ^ j, 8)), 100)

\* sum over i >= n of s^i / i!, given t = s^n / n!.
RECURSIVE ExpSum(_, _, _)
ExpSum(t, s, n) ==
    IF t = 0 THEN 0
    ELSE t + ExpSum(RoundDiv(MulScaled(t, s, 10000), n + 1), s, n + 1)

\* Values of the log domain.
Fin(v) == [k |-> "fin", v |-> v]
NegInf == [k |-> "ninf", v |-> 0]
NaN == [k |-> "nan", v |-> 0]

\* Values of the price domain.
FNaN == [k |-> "nan", m |-> ONE, e |-> 0]
FZero == [k |-> "zero", m |-> ONE, e |-> 0]

RECURSIVE Norm(_, _)
Norm(m, e) ==
    IF m >= 10 * ONE THEN Norm(m \div 10, e + 1)
    ELSE IF m < ONE THEN Norm(m * 10, e - 1)
    ELSE [k |-> "pos", m |-> m, e |-> e]

\* np.exp of a finite fixed-point x:  10^q * 2^j * exp(s), where
\* x = q * ln 10 + j * ln 2 + s and 0 <= s < ln 2.
ExpFin(x) ==
    LET q == (x * 100) \div LN10
        r == x * 100 - q * LN10
        j == r \div LN2
        s == r - j * LN2
    IN  Norm(RoundDiv((2 ^ j) * ExpSum(WIDE, s, 0), 100), q)

np_exp(x) ==
    CASE x.k = "fin" -> ExpFin(x.v)
      [] x.k = "ninf" -> FZero
      [] OTHER -> FNaN

\* np.log of a price-domain value.
np_log(f) ==
    CASE f.k = "pos" ->
            LET j == Halvings(f.m, ONE)
                v == f.e * LN10 + j * LN2 + LnMant(DivScaled(f.m, (2 ^ j) * ONE, 8))
            IN  Fin(IF v < 0 THEN -RoundDiv(-v, 100) ELSE RoundDiv(v, 100))
      [] f.k = "zero" -> NegInf
      [] OTHER -> NaN

\* np.log1p of an integer floor area a:  ln(1 + a), -inf at a = -1 and nan
\* below it (numpy warns and returns; it does not raise).
np_log1p(a) ==
    IF a + 1 > 0 THEN Fin(LnInt(a + 1))
    ELSE IF a + 1 = 0 THEN NegInf
    ELSE NaN

\* Product of two price-domain values.
FMul(f, g) ==
    CASE f.k = "nan" \/ g.k = "nan" -> FNaN
      [] f.k = "zero" \/ g.k = "zero" -> FZero
      [] OTHER -> Norm(MulFix(f.m, g.m), f.e + g.e)

\* f < g on price-domain values (false when either is nan, as in IEEE).
FLess(f, g) ==
    CASE f.k = "nan" \/ g.k = "nan" -> FALSE
      [] g.k = "zero" -> FALSE
      [] f.k = "zero" -> TRUE
      [] OTHER -> f.e < g.e \/ (f.e = g.e /\ f.m < g.m)

\* The difference of two mantissas of one exponent is at most 10^-digits of
\* the second of them.
MantClose(m1, m2, digits) ==
    /\ Abs(m1 - m2) < 1000
    /\ Abs(m1 - m2) * 10 ^ digits <= m2

\* f and g agree to a relative difference of 10^-digits (digits <= 6); zero
\* agrees with zero only, nan with nothing.
FClose(f, g, digits) ==
    CASE f.k # "pos" \/ g.k # "pos" -> f.k = g.k /\ f.k # "nan"
      [] f.e = g.e -> MantClose(f.m, g.m, digits)
      [] f.e = g.e + 1 -> MantClose(10 * f.m, g.m, digits)
      [] g.e = f.e + 1 -> MantClose(f.m, 10 * g.m, digits)
      [] OTHER -> FALSE

\* Sum of two log-domain values.  The script never forms +inf, so -inf
\* absorbs every finite summand.
XAdd(x, y) ==
    CASE x.k = "nan" \/ y.k = "nan" -> NaN
      [] x.k = "ninf" \/ y.k = "ninf" -> NegInf
      [] OTHER -> Fin(x.v + y.v)

\* (x - mean) / std for a log-domain x and a positive std.
XStandardize(x, mean, std) ==
    IF x.k = "fin" THEN Fin(DivFix(x.v - mean, std)) ELSE x

\* coef * x for a log-domain x; every coefficient applied to an unbounded
\* feature in the script is positive, 0 * -inf is nan.
XScale(coef, x) ==
    CASE x.k = "fin" -> Fin(MulFix(coef, x.v))
      [] x.k = "ninf" /\ coef > 0 -> NegInf
      [] OTHER -> NaN

(***************************************************************************)
(* Model coefficients, in millionths.                                      *)
(***************************************************************************)
INTERCEPT == 11491700

DISTRICT_COEFS ==
    "Barking and Dagenham" :> 0 @@
    "Barnet" :> 497500 @@
    "Bexley" :> -111300 @@
    "Brent" :> 600700 @@
    "Bromley" :> 136600 @@
    "Camden" :> 887800 @@
    "City of London" :> 569100 @@
    "City of Westminster" :> 988600 @@
    "Croydon" :> 150700 @@
    "Ealing" :> 635000 @@
    "Enfield" :> 313200 @@
    "Greenwich" :> 35800 @@
    "Hackney" :> 529000 @@
    "Hammersmith and Fulham" :> 844000 @@
    "Haringey" :> 481200 @@
    "Harrow" :> 515500 @@
    "Havering" :> 89500 @@
    "Hillingdon" :> 546800 @@
    "Hounslow" :> 771100 @@
    "Islington" :> 751600 @@
    "Kensington and Chelsea" :> 1227800 @@
    "Kingston upon Thames" :> 346200 @@
    "Lambeth" :> 448900 @@
    "Lewisham" :> 114600 @@
    "Merton" :> 424200 @@
    "Newham" :> 96100 @@
    "Redbridge" :> 109000 @@
    "Richmond upon Thames" :> 733200 @@
    "Southwark" :> 379100 @@
    "Sutton" :> 557600 @@
    "Tower Hamlets" :> 434900 @@
    "Waltham Forest" :> 182700 @@
    "Wandsworth" :> 560100

\* Keys in insertion order, as list(PROPERTY_TYPE_COEFS.keys()) gives them.
PROPERTY_TYPE_KEYS ==
    << "Detached Bungalow",
       "Detached House",
       "Flat",
       "House",
       "Maisonette",
       "Semi-Detached Bungalow",
       "Semi-Detached House",
       "Terraced House" >>

PROPERTY_TYPE_COEFS ==
    "Detached Bungalow" :> 111100 @@
    "Detached House" :> 180800 @@
    "Flat" :> 46400 @@
    "House" :> -92800 @@
    "Maisonette" :> -15000 @@
    "Semi-Detached Bungalow" :> 63800 @@
    "Semi-Detached House" :> 43000 @@
    "Terraced House" :> 28900

COEF_OLD_NEW == 206000
COEF_TOTAL_FLOOR_AREA_SCALED == 322900
COEF_NUMBER_HABITABLE_ROOMS_SCALED == 3800
COEF_SALE_YEAR_SCALED == 600300

FLOOR_AREA_LOG_MEAN == 4386512
FLOOR_AREA_LOG_STD == 472578
ROOMS_MEAN == 3972763
ROOMS_STD == 1740640
SALE_YEAR_MEAN == 2008795293
SALE_YEAR_STD == 8688166

RMSE_LOG == 380700

\* The year the estimate is projected to.
TARGET_YEAR == 2025

\* The module globals as the script's top level leaves them.
LoadedGlobals ==
    [ INTERCEPT |-> INTERCEPT,
      DISTRICT_COEFS |-> DISTRICT_COEFS,
      PROPERTY_TYPE_COEFS |-> PROPERTY_TYPE_COEFS,
      COEF_OLD_NEW |-> COEF_OLD_NEW,
      COEF_TOTAL_FLOOR_AREA_SCALED |-> COEF_TOTAL_FLOOR_AREA_SCALED,
      COEF_NUMBER_HABITABLE_ROOMS_SCALED |-> COEF_NUMBER_HABITABLE_ROOMS_SCALED,
      COEF_SALE_YEAR_SCALED |-> COEF_SALE_YEAR_SCALED,
      FLOOR_AREA_LOG_MEAN |-> FLOOR_AREA_LOG_MEAN,
      FLOOR_AREA_LOG_STD |-> FLOOR_AREA_LOG_STD,
      ROOMS_MEAN |-> ROOMS_MEAN,
      ROOMS_STD |-> ROOMS_STD,
      SALE_YEAR_MEAN |-> SALE_YEAR_MEAN,
      SALE_YEAR_STD |-> SALE_YEAR_STD,
      RMSE_LOG |-> RMSE_LOG ]

(***************************************************************************)
(* predict_price.  g is the record of module globals the call reads.       *)
(***************************************************************************)

\* dict.get(key, default): the stored value, or default for a missing key.
DictGet(dct, key, default) ==
    IF key \in DOMAIN dct THEN dct[key] ELSE default

\* Variant: a missing borough falls back to the form's default borough.
DistrictEffectDefaultHackney(g, d) ==
    DictGet(g.DISTRICT_COEFS, d, g.DISTRICT_COEFS["Hackney"])

DistrictEffect(g, d) == DictGet(g.DISTRICT_COEFS, d, 0)

\* Variant: a missing property type falls back to the form's default type.
PropertyTypeEffectDefaultFlat(g, t) ==
    DictGet(g.PROPERTY_TYPE_COEFS, t, g.PROPERTY_TYPE_COEFS["Flat"])

PropertyTypeEffect(g, t) == DictGet(g.PROPERTY_TYPE_COEFS, t, 0)

\* Variant: the coefficient is added whatever the flag.
NewBuildEffectAlways(g, nb) == g.COEF_OLD_NEW

NewBuildEffect(g, nb) == IF nb THEN g.COEF_OLD_NEW ELSE 0

SaleYearScaled(g) == DivFix(TARGET_YEAR * ONE - g.SALE_YEAR_MEAN, g.SALE_YEAR_STD)

SaleYearEffect(g) == MulFix(g.COEF_SALE_YEAR_SCALED, SaleYearScaled(g))

\* Variant: the standardization subtracts the wrong way round.
FloorAreaScaledReversed(g, a) ==
    IF np_log1p(a).k = "fin"
    THEN Fin(DivFix(g.FLOOR_AREA_LOG_MEAN - np_log1p(a).v, g.FLOOR_AREA_LOG_STD))
    ELSE np_log1p(a)

FloorAreaScaled(g, a) ==
    XStandardize(np_log1p(a), g.FLOOR_AREA_LOG_MEAN, g.FLOOR_AREA_LOG_STD)

FloorAreaEffect(g, a) == XScale(g.COEF_TOTAL_FLOOR_AREA_SCALED, FloorAreaScaled(g, a))

RoomsScaled(g, r) == DivFix(r * ONE - g.ROOMS_MEAN, g.ROOMS_STD)

RoomsEffect(g, r) == MulFix(g.COEF_NUMBER_HABITABLE_ROOMS_SCALED, RoomsScaled(g, r))

\* log_price as it stands when line 118 exponentiates it.
LogPrice(g, d, t, a, r, nb) ==
    XAdd(Fin(g.INTERCEPT + DistrictEffect(g, d) + PropertyTypeEffect(g, t)
             + NewBuildEffect(g, nb) + SaleYearEffect(g)),
         XAdd(FloorAreaEffect(g, a), Fin(RoomsEffect(g, r))))

\* The value predict_price returns.
predict_price(g, d, t, a, r, nb) == np_exp(LogPrice(g, d, t, a, r, nb))

\* Whether the call ends in an exception: the body has no raise, validates
\* nothing, and numpy's log1p and exp return -inf, nan or 0 under a warning.
PredictRaises(g, d, t, a, r, nb) == FALSE

\* Variant: the lookups are setdefault, which stores the default it returns.
GlobalsAfterSetdefault(g, d, t) ==
    [g EXCEPT !.DISTRICT_COEFS =
                  IF d \in DOMAIN @ THEN @ ELSE (d :> 0) @@ @,
              !.PROPERTY_TYPE_COEFS =
                  IF t \in DOMAIN @ THEN @ ELSE (t :> 0) @@ @]

\* Variant: the sum is accumulated in the global INTERCEPT, not in a local.
GlobalsAccumulating(g, d, t) ==
    [g EXCEPT !.INTERCEPT = @ + DictGet(g.DISTRICT_COEFS, d, 0)]

\* The module globals after a call: the body assigns locals only, and
\* dict.get inserts nothing.
GlobalsAfterPredict(g, d, t) == g

(***************************************************************************)
(* The button handler.                                                     *)
(***************************************************************************)

\* Variant: the band is taken the wrong way round.
PriceRangeSwapped(g, price) ==
    [ low  |-> np_exp(XAdd(np_log(price), Fin(g.RMSE_LOG))),
      high |-> np_exp(XAdd(np_log(price), Fin(-g.RMSE_LOG))) ]

\* Lines 182-184: the band of one RMSE around the logarithm of the price.
PriceRange(g, price) ==
    LET log_price == np_log(price)
    IN  [ low  |-> np_exp(XAdd(log_price, Fin(-g.RMSE_LOG))),
          high |-> np_exp(XAdd(log_price, Fin(g.RMSE_LOG))) ]

\* Variant: the breakdown of the script before the sale-year term was added.
BreakdownWithoutSaleYear(g, d, t, a, r, nb) ==
    [ base_price            |-> np_exp(Fin(g.INTERCEPT)),
      district_multiplier   |-> np_exp(Fin(DictGet(g.DISTRICT_COEFS, d, 0))),
      property_multiplier   |-> np_exp(Fin(DictGet(g.PROPERTY_TYPE_COEFS, t, 0))),
      new_build_multiplier  |-> IF nb THEN np_exp(Fin(g.COEF_OLD_NEW)) ELSE np_exp(Fin(0)),
      sale_year_multiplier  |-> np_exp(Fin(0)),
      floor_area_multiplier |->
          np_exp(XScale(g.COEF_TOTAL_FLOOR_AREA_SCALED,
                        XStandardize(np_log1p(a), g.FLOOR_AREA_LOG_MEAN,
                                     g.FLOOR_AREA_LOG_STD))),
      rooms_multiplier      |->
          np_exp(Fin(MulFix(g.COEF_NUMBER_HABITABLE_ROOMS_SCALED,
                            DivFix(r * ONE - g.ROOMS_MEAN, g.ROOMS_STD)))) ]

\* Lines 191-201: the base price and the six multipliers.
Breakdown(g, d, t, a, r, nb) ==
    [ base_price            |-> np_exp(Fin(g.INTERCEPT)),
      district_multiplier   |-> np_exp(Fin(DictGet(g.DISTRICT_COEFS, d, 0))),
      property_multiplier   |-> np_exp(Fin(DictGet(g.PROPERTY_TYPE_COEFS, t, 0))),
      new_build_multiplier  |-> IF nb THEN np_exp(Fin(g.COEF_OLD_NEW)) ELSE np_exp(Fin(0)),
      sale_year_multiplier  |->
          np_exp(Fin(MulFix(g.COEF_SALE_YEAR_SCALED,
                            DivFix(TARGET_YEAR * ONE - g.SALE_YEAR_MEAN, g.SALE_YEAR_STD)))),
      floor_area_multiplier |->
          np_exp(XScale(g.COEF_TOTAL_FLOOR_AREA_SCALED,
                        XStandardize(np_log1p(a), g.FLOOR_AREA_LOG_MEAN,
                                     g.FLOOR_AREA_LOG_STD))),
      rooms_multiplier      |->
          np_exp(Fin(MulFix(g.COEF_NUMBER_HABITABLE_ROOMS_SCALED,
                            DivFix(r * ONE - g.ROOMS_MEAN, g.ROOMS_STD)))) ]

\* The product the page writes out as "Final estimate" (line 213).
BreakdownProduct(b) ==
    FMul(FMul(FMul(FMul(FMul(FMul(b.base_price, b.district_multiplier),
                             b.property_multiplier),
                        b.new_build_multiplier),
                   b.sale_year_multiplier),
              b.floor_area_multiplier),
         b.rooms_multiplier)

(***************************************************************************)
(* The input form.                                                         *)
(***************************************************************************)

\* options of the two select boxes (the order plays no part in a choice).
DistrictOptions(g) == DOMAIN g.DISTRICT_COEFS
PropertyTypeOptions(g) == DOMAIN g.PROPERTY_TYPE_COEFS

\* sorted(DISTRICT_COEFS.keys()).index("Hackney") selects "Hackney".
DefaultDistrict == "Hackney"
\* index=2 of list(PROPERTY_TYPE_COEFS.keys()).
DefaultPropertyType == PROPERTY_TYPE_KEYS[2 + 1]

FLOOR_AREA_MIN == 15
FLOOR_AREA_MAX == 500
FLOOR_AREA_DEFAULT == 75
FLOOR_AREA_STEP == 5
ROOMS_MIN == 1
ROOMS_MAX == 10
ROOMS_DEFAULT == 4

\* Variant: the number input takes any area that is not negative.
FloorAreaAcceptedFromZero(v) == 0 <= v /\ v <= FLOOR_AREA_MAX

FloorAreaAccepted(v) == FLOOR_AREA_MIN <= v /\ v <= FLOOR_AREA_MAX
RoomsAccepted(n) == ROOMS_MIN <= n /\ n <= ROOMS_MAX

(***************************************************************************)
(* Inputs of the model.                                                    *)
(***************************************************************************)
\* Floor areas below 1 go down to -MaxBelow.
MaxBelow == 2

\* What a user of the page may try to enter.
BoroughSamples == {"Barking and Dagenham", "Bexley", "Hackney", "Atlantis"}
PropertyTypeSamples == {"Flat", "House", "Bungalow"}
FloorAreaSamples == ((-MaxBelow) .. 1) \cup {15, 75, 500, 505}
RoomSamples == {0, 1, 4, 10, 11}

\* What a caller of the function may pass.
CallBoroughs == {"Barking and Dagenham", "Hackney", "Atlantis"}
CallPropertyTypes == {"Flat", "Bungalow"}
CallFloorAreas == ((-MaxBelow) .. 1) \cup {FLOOR_AREA_DEFAULT, FLOOR_AREA_MAX}
CallRooms == {ROOMS_DEFAULT, ROOMS_MAX}

VARIABLES
    globals,        \* the module globals (lines 17-83)
    district,       \* the five widgets' values
    property_type,
    is_new_build,
    floor_area,
    num_rooms,
    shown,          \* what the page shows under the button
    last_call,      \* the invocation of predict_price by the latest run or caller
    pinned          \* one earlier invocation, kept for comparison

vars == << globals, district, property_type, is_new_build, floor_area,
           num_rooms, shown, last_call, pinned >>

widgets == << district, property_type, is_new_build, floor_area, num_rooms >>

NoBreakdown ==
    [ base_price |-> FNaN, district_multiplier |-> FNaN,
      property_multiplier |-> FNaN, new_build_multiplier |-> FNaN,
      sale_year_multiplier |-> FNaN, floor_area_multiplier |-> FNaN,
      rooms_multiplier |-> FNaN ]

NothingShown ==
    [ on |-> FALSE, price |-> FNaN, price_low |-> FNaN, price_high |-> FNaN,
      breakdown |-> NoBreakdown ]

Invocation(via, d, t, a, r, nb, raised, value) ==
    [ made |-> TRUE, via |-> via, district |-> d, property_type |-> t,
      floor_area |-> a, num_rooms |-> r, is_new_build |-> nb,
      raised |-> raised, value |-> value ]

NoInvocation ==
    [ made |-> FALSE, via |-> "none", district |-> "", property_type |-> "",
      floor_area |-> 0, num_rooms |-> 0, is_new_build |-> FALSE,
      raised |-> FALSE, value |-> FNaN ]

NotPinned == [ call |-> NoInvocation, others_since |-> FALSE ]

SameArguments(c1, c2) ==
    /\ c1.district = c2.district
    /\ c1.property_type = c2.property_type
    /\ c1.floor_area = c2.floor_area
    /\ c1.num_rooms = c2.num_rooms
    /\ c1.is_new_build = c2.is_new_build

\* The pinned invocation, once made, notes whether a call with other
\* arguments followed it.
PinnedAfter(call) ==
    IF pinned.call.made /\ ~SameArguments(pinned.call, call)
    THEN [pinned EXCEPT !.others_since = TRUE]
    ELSE pinned

Init ==
    /\ globals = LoadedGlobals
    /\ district = DefaultDistrict
    /\ property_type = DefaultPropertyType
    /\ is_new_build = FALSE
    /\ floor_area = FLOOR_AREA_DEFAULT
    /\ num_rooms = ROOMS_DEFAULT
    /\ shown = NothingShown
    /\ last_call = NoInvocation
    /\ pinned = NotPinned

\* A widget change reruns the script with the button unpressed: the top
\* level assigns the globals again and nothing is drawn under the button.
RerunUnpressed ==
    /\ globals' = LoadedGlobals
    /\ shown' = NothingShown
    /\ last_call' = NoInvocation
    /\ UNCHANGED pinned

SelectDistrict(d) ==
    /\ d \in DistrictOptions(globals)
    /\ d # district
    /\ district' = d
    /\ UNCHANGED << property_type, is_new_build, floor_area, num_rooms >>
    /\ RerunUnpressed

SelectPropertyType(t) ==
    /\ t \in PropertyTypeOptions(globals)
    /\ t # property_type
    /\ property_type' = t
    /\ UNCHANGED << district, is_new_build, floor_area, num_rooms >>
    /\ RerunUnpressed

ChoosePropertyAge(choice) ==
    /\ is_new_build # (choice = "New Build")
    /\ is_new_build' = (choice = "New Build")
    /\ UNCHANGED << district, property_type, floor_area, num_rooms >>
    /\ RerunUnpressed

TypeFloorArea(v) ==
    /\ FloorAreaAccepted(v)
    /\ v # floor_area
    /\ floor_area' = v
    /\ UNCHANGED << district, property_type, is_new_build, num_rooms >>
    /\ RerunUnpressed

StepFloorArea(dir) ==
    /\ FloorAreaAccepted(floor_area + dir * FLOOR_AREA_STEP)
    /\ floor_area' = floor_area + dir * FLOOR_AREA_STEP
    /\ UNCHANGED << district, property_type, is_new_build, num_rooms >>
    /\ RerunUnpressed

SlideRooms(n) ==
    /\ RoomsAccepted(n)
    /\ n # num_rooms
    /\ num_rooms' = n
    /\ UNCHANGED << district, property_type, is_new_build, floor_area >>
    /\ RerunUnpressed

\* What the page draws under the button for a returned price (lines 182-214).
Drawn(g, price, range, d, t, a, r, nb) ==
    [ on |-> TRUE, price |-> price,
      price_low |-> range.low, price_high |-> range.high,
      breakdown |-> Breakdown(g, d, t, a, r, nb) ]

\* The bookkeeping of an invocation.
Record(call) ==
    /\ last_call' = call
    /\ pinned' = PinnedAfter(call)

\* Lines 178-214: a press reruns the script with the button pressed.  An
\* exception out of predict_price would end the run with nothing drawn.
PressButton ==
    \E call \in { Invocation("button", district, property_type, floor_area,
                              num_rooms, is_new_build,
                              PredictRaises(LoadedGlobals, district, property_type,
                                            floor_area, num_rooms, is_new_build),
                              predict_price(LoadedGlobals, district, property_type,
                                            floor_area, num_rooms, is_new_build)) } :
    \E g1 \in { GlobalsAfterPredict(LoadedGlobals, district, property_type) } :
    \E range \in { PriceRange(g1, call.value) } :
        /\ Record(call)
        /\ globals' = g1
        /\ shown' = IF call.raised THEN NothingShown
                    ELSE Drawn(g1, call.value, range, district, property_type,
                               floor_area, num_rooms, is_new_build)
        /\ UNCHANGED widgets

\* predict_price called as a function, with arguments no form constrains.
\* The invocation is pinned when it is one of the pinnable ones and none is
\* pinned yet.
Pinnable(d, t, a, r, nb) ==
    /\ d \in {DefaultDistrict, "Atlantis"}
    /\ t = DefaultPropertyType
    /\ a = FLOOR_AREA_DEFAULT
    /\ r = ROOMS_DEFAULT
    /\ nb = FALSE

RecordAndPin(call) ==
    /\ last_call' = call
    /\ pinned' = IF ~pinned.call.made
                    /\ Pinnable(call.district, call.property_type, call.floor_area,
                                call.num_rooms, call.is_new_build)
                 THEN [ call |-> call, others_since |-> FALSE ]
                 ELSE PinnedAfter(call)

DirectCall(d, t, a, r, nb) ==
    \E call \in { Invocation("direct", d, t, a, r, nb,
                              PredictRaises(globals, d, t, a, r, nb),
                              predict_price(globals, d, t, a, r, nb)) } :
        /\ RecordAndPin(call)
        /\ globals' = GlobalsAfterPredict(globals, d, t)
        /\ UNCHANGED << widgets, shown >>

\* The page in a browser.
Next ==
    \/ \E d \in BoroughSamples : SelectDistrict(d)
    \/ \E t \in PropertyTypeSamples : SelectPropertyType(t)
    \/ \E choice \in {"Existing Property", "New Build"} : ChoosePropertyAge(choice)
    \/ \E v \in FloorAreaSamples : TypeFloorArea(v)
    \/ \E dir \in {-1, 1} : StepFloorArea(dir)
    \/ \E n \in RoomSamples : SlideRooms(n)
    \/ PressButton

Spec == Init /\ [][Next]_vars

\* predict_price as a library function, beside the page's button.
NextFn ==
    \/ \E d \in CallBoroughs, t \in CallPropertyTypes, a \in CallFloorAreas,
          r \in CallRooms, nb \in BOOLEAN : DirectCall(d, t, a, r, nb)
    \/ PressButton

SpecFn == Init /\ [][NextFn]_vars

(***************************************************************************)
(* Properties.                                                             *)
(***************************************************************************)

\* The latest invocation's price, had one argument been another.
WithDistrict(d) ==
    predict_price(globals, d, last_call.property_type, last_call.floor_area,
                  last_call.num_rooms, last_call.is_new_build)

WithPropertyType(t) ==
    predict_price(globals, last_call.district, t, last_call.floor_area,
                  last_call.num_rooms, last_call.is_new_build)

WithFloorArea(a) ==
    predict_price(globals, last_call.district, last_call.property_type, a,
                  last_call.num_rooms, last_call.is_new_build)

WithNewBuild(nb) ==
    predict_price(globals, last_call.district, last_call.property_type,
                  last_call.floor_area, last_call.num_rooms, nb)

LogPriceWithNewBuild(nb) ==
    LogPrice(globals, last_call.district, last_call.property_type,
             last_call.floor_area, last_call.num_rooms, nb)

\* C1: a borough that is no key of DISTRICT_COEFS does not make predict_price
\* fail and adds exactly 0 to log_price, so the call returns what the call
\* with the baseline borough "Barking and Dagenham" and the same other four
\* arguments returns.
C1_UnknownBoroughIsBaseline ==
    (last_call.made /\ last_call.district \notin DOMAIN DISTRICT_COEFS) =>
        /\ ~last_call.raised
        /\ DistrictEffect(globals, last_call.district) = 0
        /\ DistrictEffect(globals, "Barking and Dagenham") = 0
        /\ last_call.value = WithDistrict("Barking and Dagenham")

C1_Witness ==
    /\ last_call.made
    /\ last_call.district = "Atlantis"
    /\ last_call.value.k = "pos"

\* Names of property types: the stored ones and some the table does not hold.
PropertyTypeNames ==
    DOMAIN PROPERTY_TYPE_COEFS \cup CallPropertyTypes \cup {"Park Home", ""}

\* The property types, stored or not, whose offset is 0.
ZeroOffsetTypes == { t \in PropertyTypeNames : PropertyTypeEffect(globals, t) = 0 }

C3_NonPositiveAreaRaises ==
    (last_call.made /\ last_call.floor_area <= 0) => last_call.raised

\* C4: with every other argument fixed, the log-price of the new-build call
\* exceeds that of the existing-property call by exactly COEF_OLD_NEW, and the
\* price is the other price times exp(COEF_OLD_NEW) (to a relative difference
\* of 10^-5, the rounding of the seven-digit arithmetic).
C4_NewBuildAddsCoefficient ==
    (last_call.made /\ LogPriceWithNewBuild(FALSE).k = "fin") =>
        /\ LogPriceWithNewBuild(TRUE).k = "fin"
        /\ LogPriceWithNewBuild(TRUE).v - LogPriceWithNewBuild(FALSE).v = COEF_OLD_NEW
        /\ IF last_call.is_new_build
           THEN FClose(last_call.value,
                       FMul(WithNewBuild(FALSE), np_exp(Fin(COEF_OLD_NEW))), 5)
           ELSE FClose(WithNewBuild(TRUE),
                       FMul(last_call.value, np_exp(Fin(COEF_OLD_NEW))), 5)

C4_Witness ==
    /\ last_call.made
    /\ last_call.is_new_build
    /\ last_call.value.k = "pos"
    /\ FLess(WithNewBuild(FALSE), last_call.value)

\* C5: with every other argument fixed, a larger valid floor area (a whole
\* number of square metres above 0) gives a strictly greater price.
C5_PriceIncreasesWithFloorArea ==
    (last_call.made /\ last_call.floor_area > 0) =>
        \A a2 \in CallFloorAreas \cup FloorAreaSamples \cup {last_call.floor_area + 1} :
            /\ a2 > last_call.floor_area => FLess(last_call.value, WithFloorArea(a2))
            /\ (0 < a2 /\ a2 < last_call.floor_area) =>
                   FLess(WithFloorArea(a2), last_call.value)

C5_Witness ==
    /\ last_call.made
    /\ last_call.floor_area = FLOOR_AREA_MAX
    /\ last_call.value.k = "pos"
    /\ FLess(WithFloorArea(FLOOR_AREA_MAX - 1), last_call.value)

\* C6: the base price and the six multipliers drawn after a press multiply
\* out to the price predict_price returned for the same inputs (to a relative
\* difference of 10^-5, the rounding of the seven-digit arithmetic).
C6_BreakdownMultipliesOut ==
    shown.on =>
        /\ last_call.made /\ last_call.via = "button"
        /\ shown.price = last_call.value
        /\ shown.price.k = "pos"
        /\ FClose(BreakdownProduct(shown.breakdown), shown.price, 5)

C6_Witness ==
    /\ shown.on
    /\ is_new_build
    /\ district = "Bexley"
    /\ property_type = "House"
    /\ num_rooms = 10
    /\ floor_area = FLOOR_AREA_MAX

\* C7: the range drawn after a press has low < price < high, where low and
\* high are the exponentials of the log-price less and plus RMSE_LOG.
C7_RangeBracketsPrice ==
    shown.on =>
        /\ FLess(shown.price_low, shown.price)
        /\ FLess(shown.price, shown.price_high)
        /\ FClose(shown.price_low,
                  np_exp(XAdd(LogPriceWithNewBuild(last_call.is_new_build),
                              Fin(-RMSE_LOG))), 6)
        /\ FClose(shown.price_high,
                  np_exp(XAdd(LogPriceWithNewBuild(last_call.is_new_build),
                              Fin(RMSE_LOG))), 6)

C7_Witness ==
    /\ shown.on
    /\ floor_area = FLOOR_AREA_MIN
    /\ num_rooms = ROOMS_MIN
    /\ shown.price_low.k = "pos"

\* C8: two invocations with the same arguments return the same value,
\* whatever was called or pressed between them.
C8_SameArgumentsSameResult ==
    (pinned.call.made /\ last_call.made /\ SameArguments(pinned.call, last_call)) =>
        /\ last_call.raised = pinned.call.raised
        /\ last_call.value = pinned.call.value

C8_Witness ==
    /\ pinned.call.made
    /\ pinned.others_since
    /\ last_call.made
    /\ last_call.via = "button"
    /\ SameArguments(pinned.call, last_call)

\* C9: the model parameters keep the values they had at load through every
\* prediction, range and breakdown, unknown boroughs and types included.
C9_ParametersUnchanged == globals = LoadedGlobals

C9_Witness ==
    /\ shown.on
    /\ last_call.made
    /\ last_call.via = "direct"
    /\ last_call.district \notin DOMAIN DISTRICT_COEFS
    /\ last_call.property_type \notin DOMAIN PROPERTY_TYPE_COEFS

\* C10: a call the page makes has a borough and a property type that are keys
\* of the tables, a floor area in 15..500 and a room count in 1..10, so it
\* takes no fallback; and a run of the script calls predict_price only when
\* the button was pressed.
C10_PageCallsAreConstrained ==
    /\ [](last_call.via = "button" =>
            /\ last_call.district \in DOMAIN DISTRICT_COEFS
            /\ last_call.property_type \in DOMAIN PROPERTY_TYPE_COEFS
            /\ last_call.floor_area \in 15 .. 500
            /\ last_call.num_rooms \in 1 .. 10)
    /\ [][last_call'.made =>
            /\ last_call'.via = "button"
            /\ shown'.on
            /\ UNCHANGED widgets]_vars

C10_Witness ==
    /\ last_call.via = "button"
    /\ last_call.floor_area = 500
    /\ last_call.num_rooms = 1
    /\ last_call.district = "Barking and Dagenham"

====
